---------------------------- MODULE Spec2Model ----------------------------
(***************************************************************************)
(* A model of pyM17: the n7tae reflector connection (m17/net/reflector.py), *)
(* the LICH collector (m17/frames/lich.py) and the frame and address        *)
(* serialisation they rest on.                                              *)
(*                                                                          *)
(* Byte strings are sequences of integers 0..255; Python str values are    *)
(* sequences of ASCII codes.  A 48-bit address value is kept as a pair      *)
(* <<hi, lo>> of 24-bit limbs, value = hi * 2^24 + lo.                      *)
(***************************************************************************)
EXTENDS Integers, Sequences, FiniteSets, TLC

VARIABLES
    state,           \* ReflectorConnection._state
    sock,            \* ReflectorConnection._sock is not None (socket open)
    module,          \* ReflectorConnection.module
    frame_callback,  \* ReflectorConnection._frame_callback is set
    pc,              \* "idle", or "connecting" while connect() waits for ACKN
    elapsed,         \* ticks elapsed since connect() took `start`
    sent,            \* datagrams passed to sendto() on the current socket
    delivered,       \* number of frames handed to the frame callback
    ret,             \* the last call: its name, argument and outcome
    lsf,             \* the LinkSetupFrame being transmitted over LICH
    txChunks,        \* result of the last chunks() call on it
    chunks,          \* LICHCollector._chunks
    complete,        \* LICHCollector._complete
    call,            \* the last call on the collector and its outcome
    fed,             \* slot indices written since construction / reset
    pure,            \* every chunk stored since reset was lsf's own chunk
    codec,           \* the last codec call: its input, argument and result
    orphans,         \* sockets left open by connections the client dropped
    stream           \* the StreamContext and the frames it has handed over

vars == <<state, sock, module, frame_callback, pc, elapsed, sent, delivered,
          ret, lsf, txChunks, chunks, complete, call, fed, pure, codec,
          orphans, stream>>

reflVars == <<state, sock, module, frame_callback, pc, elapsed, sent,
              delivered, ret>>

lichVars == <<lsf, txChunks, chunks, complete, call, fed, pure>>

-----------------------------------------------------------------------------
(* Bounds *)

MaxSent == 3

MaxDelivered == 1

MaxFrameNumber == 6

\* the timeout argument of connect(), in clock ticks
TimeoutTicks == 2

\* longest callsign string enumerated in full
MaxCallsignLen == 3

\* largest address value enumerated from 0
MaxAddressValue == 90

\* longest byte string enumerated in full as CRC input
MaxCrcLen == 3

\* longest period of the bit patterns that fill a frame-sized input
MaxBitPeriod == 4

\* longest bit sequence enumerated in full as convolutional encoder input
MaxViterbiBits == 6

\* largest 12-bit data value enumerated from 0 as Golay encoder input
MaxGolayData == 1

\* longest packet payload handed to PacketFrame.from_data
MaxPacketLen == 52

\* number of LFSR steps taken from one seed
MaxLfsrSteps == 16

\* sockets of dropped connections that are counted
MaxOrphans == 2

\* frames one stream hands over: enough to pass the 2^15 wrap
MaxHanded == 32770

-----------------------------------------------------------------------------
(* Integer and byte helpers *)

None == [none |-> TRUE]

RECURSIVE BitXor(_, _)
BitXor(a, b) ==
    IF a = 0 THEN b
    ELSE IF b = 0 THEN a
    ELSE (((a % 2) + (b % 2)) % 2) + (2 * BitXor(a \div 2, b \div 2))

\* int.to_bytes(k, "big") for a value below 2^31
RECURSIVE to_bytes(_, _)
to_bytes(n, k) ==
    IF k = 0 THEN <<>> ELSE Append(to_bytes(n \div 256, k - 1), n % 256)

\* int.from_bytes(b, "big") for at most three bytes
RECURSIVE from_bytes(_)
from_bytes(b) ==
    IF b = <<>> THEN 0
    ELSE (256 * from_bytes(SubSeq(b, 1, Len(b) - 1))) + b[Len(b)]

\* bytes(n): n zero bytes
zeros(n) == [i \in 1..n |-> 0]

\* data[i:j] with Python's clamping of the bounds
Slice(data, i, j) ==
    LET hi == IF j > Len(data) THEN Len(data) ELSE j
    IN  IF i >= hi THEN <<>> ELSE SubSeq(data, i + 1, hi)

RECURSIVE Concat(_)
Concat(ss) == IF ss = <<>> THEN <<>> ELSE Head(ss) \o Concat(Tail(ss))

-----------------------------------------------------------------------------
(* m17/core/crc.py *)

M17_CRC_POLY == 22837

\* the inner loop: "crc <<= 1; if crc & 0x10000: crc = (crc ^ POLY) & 0xFFFF"
RECURSIVE crc_bits(_, _)
crc_bits(crc, n) ==
    IF n = 0 THEN crc
    ELSE LET c2 == crc * 2
         IN  crc_bits(IF c2 >= 65536 THEN BitXor(c2, M17_CRC_POLY) % 65536
                      ELSE c2, n - 1)

\* the outer loop "for byte in data: crc ^= byte << 8; ...".  The test
\* c >= 0 is always true: it makes TLC compute the running value before it
\* descends, which keeps the evaluation shallow.
RECURSIVE crc_loop(_, _)
crc_loop(crc, data) ==
    IF data = <<>> THEN crc
    ELSE LET c == crc_bits(BitXor(crc, Head(data) * 256), 8)
         IN  IF c >= 0 THEN crc_loop(c, Tail(data)) ELSE c

crc_m17(data) == crc_loop(65535, data) % 65536

\* crc_m17_bytes that writes the low byte first
crc_m17_bytes_le(data) == <<crc_m17(data) % 256, crc_m17(data) \div 256>>

\* crc_m17(data).to_bytes(2, "big")
crc_m17_bytes(data) == to_bytes(crc_m17(data), 2)

verify_crc(data) == crc_m17(data) = 0

-----------------------------------------------------------------------------
(* m17/core/constants.py and m17/core/address.py *)

Limb == 256 * 256 * 256

CALLSIGN_ALPHABET ==
    <<32>> \o [i \in 1..26 |-> 64 + i] \o [i \in 1..10 |-> 47 + i]
           \o <<45, 47, 46>>

\* 40^9 - 1 = 15624999 * 2^24 + 16777215
MAX_CALLSIGN_VALUE == <<15624999, 16777215>>

BROADCAST_ADDRESS == <<16777215, 16777215>>

\* 40^9 = 15625000 * 2^24
HASH_ADDRESS_MIN == <<15625000, 0>>

\* 40^9 + 40^8 - 1 = 16015624 * 2^24 + 16777215
HASH_ADDRESS_MAX == <<16015624, 16777215>>

\* a raised ValueError, as the value of the call that raised it
ValueError == [error |-> "ValueError"]

\* the same where the call returns a str, a list or an address
ValueErrorSeq == <<-1>>

\* the same where the call returns a non-negative int
ValueErrorInt == -1

AddrLeq(a, b) == a[1] < b[1] \/ (a[1] = b[1] /\ a[2] <= b[2])

AddrAdd(a, b) ==
    LET lo == a[2] + b[2]
    IN  <<a[1] + b[1] + (lo \div Limb), lo % Limb>>

str_upper(s) == [i \in 1..Len(s) |-> IF s[i] >= 97 /\ s[i] <= 122
                                      THEN s[i] - 32 ELSE s[i]]

Whitespace == {9, 10, 11, 12, 13, 28, 29, 30, 31, 32}

RECURSIVE lstrip(_)
lstrip(s) ==
    IF s # <<>> /\ Head(s) \in Whitespace THEN lstrip(Tail(s)) ELSE s

RECURSIVE rstrip(_)
rstrip(s) ==
    IF s # <<>> /\ s[Len(s)] \in Whitespace
    THEN rstrip(SubSeq(s, 1, Len(s) - 1)) ELSE s

str_strip(s) == rstrip(lstrip(s))

InAlphabet(c) == \E i \in 1..Len(CALLSIGN_ALPHABET) : CALLSIGN_ALPHABET[i] = c

\* the loop "for char in reversed(callsign): num = num * 40 + char_idx",
\* char_idx = CALLSIGN_ALPHABET.index(char), on the two limbs
RECURSIVE encode_base40(_)
encode_base40(s) ==
    IF s = <<>> THEN <<0, 0>>
    ELSE LET num == encode_base40(Tail(s))
             char_idx == (CHOOSE i \in 1..Len(CALLSIGN_ALPHABET) :
                              CALLSIGN_ALPHABET[i] = Head(s)) - 1
             lo == (num[2] * 40) + char_idx
         IN  <<(num[1] * 40) + (lo \div Limb), lo % Limb>>

_encode_hash_callsign(callsign) ==
    IF Len(callsign) > 8 THEN ValueErrorSeq
    ELSE IF \E i \in 1..Len(callsign) : ~InAlphabet(callsign[i])
    THEN ValueErrorSeq
    ELSE AddrAdd(HASH_ADDRESS_MIN, encode_base40(callsign))

encode_callsign(cs) ==
    LET callsign == str_strip(str_upper(cs))
    IN  IF callsign = <<64, 65, 76, 76>> THEN BROADCAST_ADDRESS
        ELSE IF callsign # <<>> /\ Head(callsign) = 35
        THEN _encode_hash_callsign(Tail(callsign))
        ELSE IF Len(callsign) > 9 THEN ValueErrorSeq
        ELSE IF \E i \in 1..Len(callsign) : ~InAlphabet(callsign[i])
        THEN ValueErrorSeq
        ELSE LET num == encode_base40(callsign)
             IN  IF ~AddrLeq(num, MAX_CALLSIGN_VALUE) THEN ValueErrorSeq
                 ELSE num

\* Address(addr=<bytes>): value = int.from_bytes(addr, "big")
Address_from_bytes(addr) ==
    IF Len(addr) # 6 THEN ValueError
    ELSE <<from_bytes(SubSeq(addr, 1, 3)), from_bytes(SubSeq(addr, 4, 6))>>

\* Address.__bytes__: value.to_bytes(6, "big")
Address_bytes(value) == to_bytes(value[1], 3) \o to_bytes(value[2], 3)

\* a - b on the two limbs, for a >= b
AddrSub(a, b) ==
    IF a[2] >= b[2] THEN <<a[1] - b[1], a[2] - b[2]>>
    ELSE <<(a[1] - b[1]) - 1, (a[2] + Limb) - b[2]>>

\* num // 40 and num % 40 on the two limbs
Div40(num) ==
    <<num[1] \div 40, (((num[1] % 40) * Limb) + num[2]) \div 40>>

Mod40(num) == (((num[1] % 40) * Limb) + num[2]) % 40

\* _decode_base40 that writes the most significant digit first
RECURSIVE _decode_base40_msb_first(_)
_decode_base40_msb_first(num) ==
    IF num = <<0, 0>> THEN <<>>
    ELSE Append(_decode_base40_msb_first(Div40(num)),
                CALLSIGN_ALPHABET[Mod40(num) + 1])

\* the loop "while num > 0: chars.append(ALPHABET[num % 40]); num //= 40"
RECURSIVE _decode_base40(_)
_decode_base40(num) ==
    IF num = <<0, 0>> THEN <<>>
    ELSE <<CALLSIGN_ALPHABET[Mod40(num) + 1]>> \o _decode_base40(Div40(num))

decode_callsign(addr) ==
    IF addr = BROADCAST_ADDRESS THEN <<64, 65, 76, 76>>
    ELSE IF AddrLeq(HASH_ADDRESS_MIN, addr) /\ AddrLeq(addr, HASH_ADDRESS_MAX)
    THEN <<35>> \o _decode_base40(AddrSub(addr, HASH_ADDRESS_MIN))
    ELSE IF ~AddrLeq(addr, MAX_CALLSIGN_VALUE) THEN ValueErrorSeq
    ELSE _decode_base40(addr)

-----------------------------------------------------------------------------
(* m17/frames/lsf.py: LinkSetupFrame *)

\* the dataclass constructor with __post_init__: meta forced to 14 bytes
LinkSetupFrame(dst, src, type_field, meta) ==
    [dst |-> dst, src |-> src, type_field |-> type_field,
     meta |-> IF Len(meta) < 14 THEN meta \o zeros(14 - Len(meta))
              ELSE Slice(meta, 0, 14)]

to_bytes_without_crc(f) ==
    Address_bytes(f.dst) \o Address_bytes(f.src)
        \o to_bytes(f.type_field, 2) \o f.meta

\* LinkSetupFrame.from_bytes(data, has_crc=False)
LSF_from_bytes(data) ==
    IF Len(data) # 28 THEN ValueError
    ELSE LinkSetupFrame(Address_from_bytes(Slice(data, 0, 6)),
                        Address_from_bytes(Slice(data, 6, 12)),
                        from_bytes(Slice(data, 12, 14)),
                        Slice(data, 14, 28))

\* [data[i : i + chunk_size] for i in range(0, stop, chunk_size)]
slices(data, stop, chunk_size) ==
    [k \in 1..((stop + chunk_size - 1) \div chunk_size) |->
        Slice(data, (k - 1) * chunk_size, k * chunk_size)]

\* LinkSetupFrame.chunks(chunk_size=6)
LSF_chunks(f) ==
    LET data == to_bytes_without_crc(f)
    IN  slices(data, Len(data), 6)

-----------------------------------------------------------------------------
(* m17/frames/lich.py: LICHFrame *)

from_lsf(f) ==
    [dst |-> f.dst, src |-> f.src, stream_type |-> f.type_field,
     nonce |-> IF Len(f.meta) < 14 THEN f.meta \o zeros(14 - Len(f.meta))
               ELSE Slice(f.meta, 0, 14)]

\* struct ">6s6sH14s"
LICH_to_bytes(l) ==
    Address_bytes(l.dst) \o Address_bytes(l.src)
        \o to_bytes(l.stream_type, 2) \o l.nonce

\* LICHFrame.chunks(chunk_size=6)
LICH_chunks(l) ==
    LET data == LICH_to_bytes(l) \o zeros(2)
    IN  slices(data, 30, 6)

get_chunk(l, frame_number) == LICH_chunks(l)[(frame_number % 5) + 1]

-----------------------------------------------------------------------------
(* m17/frames/stream.py: M17Payload, and m17/frames/ip.py: IPFrame *)

M17_MAGIC_NUMBER == <<77, 49, 55, 32>>

M17Payload(frame_number, payload, crc) ==
    [frame_number |-> frame_number,
     payload |-> IF Len(payload) < 16 THEN payload \o zeros(16 - Len(payload))
                 ELSE Slice(payload, 0, 16),
     crc |-> crc]

calculate_crc(f) ==
    crc_m17(Address_bytes(f.lsf.dst) \o Address_bytes(f.lsf.src)
            \o to_bytes(f.lsf.type_field, 2) \o f.lsf.meta
            \o to_bytes(f.payload.frame_number, 2) \o f.payload.payload)

\* IPFrame.to_bytes / __bytes__: struct ">4sH6s6sH14sH16sH"
IPFrame_to_bytes(f) ==
    f.magic_number \o to_bytes(f.stream_id, 2)
        \o Address_bytes(f.lsf.dst) \o Address_bytes(f.lsf.src)
        \o to_bytes(f.lsf.type_field, 2) \o f.lsf.meta
        \o to_bytes(f.payload.frame_number, 2) \o f.payload.payload
        \o to_bytes(calculate_crc(f), 2)

IPFrame_from_bytes(data) ==
    IF Len(data) # 54 THEN ValueError
    ELSE IF Slice(data, 0, 4) # M17_MAGIC_NUMBER THEN ValueError
    ELSE [magic_number |-> Slice(data, 0, 4),
          stream_id |-> from_bytes(Slice(data, 4, 6)),
          lsf |-> LinkSetupFrame(Address_from_bytes(Slice(data, 6, 12)),
                                 Address_from_bytes(Slice(data, 12, 18)),
                                 from_bytes(Slice(data, 18, 20)),
                                 Slice(data, 20, 34)),
          payload |-> M17Payload(from_bytes(Slice(data, 34, 36)),
                                 Slice(data, 36, 52),
                                 from_bytes(Slice(data, 52, 54)))]

\* IPFrame.create with string callsigns and an explicit stream_id
IPFrame_create(dst, src, stream_id, stream_type, nonce, frame_number, payload) ==
    [magic_number |-> M17_MAGIC_NUMBER,
     stream_id |-> stream_id,
     lsf |-> LinkSetupFrame(encode_callsign(dst), encode_callsign(src),
                            stream_type,
                            IF Len(nonce) < 14
                            THEN nonce \o zeros(14 - Len(nonce))
                            ELSE Slice(nonce, 0, 14)),
     payload |-> M17Payload(frame_number,
                            IF Len(payload) < 16
                            THEN payload \o zeros(16 - Len(payload))
                            ELSE Slice(payload, 0, 16),
                            0)]

-----------------------------------------------------------------------------
(* m17/net/reflector.py: ReflectorMessage, ReflectorProtocol *)

ReflectorMessage ==
    [CONN |-> <<67, 79, 78, 78>>, DISC |-> <<68, 73, 83, 67>>,
     PING |-> <<80, 73, 78, 71>>, PONG |-> <<80, 79, 78, 71>>,
     ACKN |-> <<65, 67, 75, 78>>, NACK |-> <<78, 65, 67, 75>>,
     M17_FRAME |-> <<77, 49, 55, 32>>]

\* ReflectorConnection.callsign, default "N0CALL"
callsign == <<78, 48, 67, 65, 76, 76>>

\* ReflectorProtocol.__post_init__
callsign_bytes == Address_bytes(encode_callsign(callsign))

isalpha(s) ==
    /\ s # <<>>
    /\ \A i \in 1..Len(s) : (s[i] >= 65 /\ s[i] <= 90)
                            \/ (s[i] >= 97 /\ s[i] <= 122)

make_connect(m) ==
    IF Len(m) # 1 \/ ~isalpha(m) THEN ValueError
    ELSE ReflectorMessage.CONN \o callsign_bytes \o str_upper(m)

make_disconnect == ReflectorMessage.DISC \o callsign_bytes

\* make_pong without the address
make_pong_bare == ReflectorMessage.PONG

make_pong == ReflectorMessage.PONG \o callsign_bytes

parse_message(data) ==
    IF Len(data) < 4 THEN ValueError
    ELSE LET prefix == Slice(data, 0, 4)
             payload == Slice(data, 4, Len(data))
         IN  IF \E t \in DOMAIN ReflectorMessage : ReflectorMessage[t] = prefix
             THEN [msg_type |-> CHOOSE t \in DOMAIN ReflectorMessage :
                                    ReflectorMessage[t] = prefix,
                   payload |-> payload]
             ELSE ValueError

-----------------------------------------------------------------------------
(* Inputs of the reflector connection *)

\* values of the module field: "A", "b", "1", "AB", ""
Modules == {<<65>>, <<98>>, <<49>>, <<65, 66>>, <<>>}

W2FBI == <<87, 50, 70, 66, 73>>

\* an outcome of random.randint(1, 0xFFFF), which IPFrame.create draws when
\* no stream_id is given
RandomStreamIds == {4660}

\* IPFrame.create(dst="W2FBI", src=callsign) with the default type, nonce,
\* frame number and payload, for each stream ID it may draw
StreamFrames ==
    [r \in RandomStreamIds |->
        IPFrame_create(W2FBI, callsign, r, 5, <<>>, 0, <<>>)]

\* frames the application sends: built with no stream_id, or with an explicit
\* one (0xF00D, 0)
Frames ==
    {StreamFrames[r] : r \in RandomStreamIds}
        \cup {IPFrame_create(<<64, 65, 76, 76>>, callsign, 61453, 5, <<1, 2>>,
                             32769, [i \in 1..16 |-> 170]),
              IPFrame_create(W2FBI, callsign, 0, 5, <<>>, 0, <<>>)}

\* bytes(frame) of each of them, computed once
frame_bytes == [f \in Frames |-> IPFrame_to_bytes(f)]

\* a well-formed frame as the reflector relays it
RelayedFrame ==
    IPFrame_to_bytes(IPFrame_create(callsign, W2FBI, 61453, 5, <<>>, 1,
                                    [i \in 1..16 |-> 170]))

\* datagrams the socket may deliver; one is RelayedFrame with its CRC field
\* damaged in transit
Inbound ==
    {ReflectorMessage.ACKN, ReflectorMessage.NACK, ReflectorMessage.PING,
     ReflectorMessage.PING \o Address_bytes(encode_callsign(W2FBI)),
     ReflectorMessage.PONG,
     RelayedFrame,
     [RelayedFrame EXCEPT ![54] = (RelayedFrame[54] + 1) % 256],
     SubSeq(RelayedFrame, 1, 53),
     <<88, 88, 88, 88>>,
     <<65, 67, 75>>}

Ret(op, ev, arg, result) ==
    [op |-> op, ev |-> ev, arg |-> arg, result |-> result]

-----------------------------------------------------------------------------
(* m17/net/reflector.py: ReflectorConnection *)

is_connected == state = "CONNECTED"

\* connect() that treats ERROR like DISCONNECTED and starts over
connect_from_error ==
    /\ pc = "idle"
    /\ IF state \notin {"DISCONNECTED", "ERROR"}
       THEN /\ ret' = Ret("connect", "call", <<>>, "False")
            /\ UNCHANGED <<state, sock, pc, elapsed, sent>>
       ELSE /\ sock' = TRUE
            /\ elapsed' = 0
            /\ IF make_connect(module) = ValueError
               THEN /\ state' = "ERROR"
                    /\ sent' = <<>>
                    /\ pc' = "idle"
                    /\ ret' = Ret("connect", "call", <<>>, "False")
               ELSE /\ state' = "CONNECTING"
                    /\ sent' = <<make_connect(module)>>
                    /\ pc' = "connecting"
                    /\ ret' = Ret("connect", "call", <<>>, "waiting")
    /\ UNCHANGED <<module, frame_callback, delivered>>

\* connect(): from the call up to the first recvfrom()
connect ==
    /\ pc = "idle"
    /\ IF state # "DISCONNECTED"
       THEN /\ ret' = Ret("connect", "call", <<>>, "False")
            /\ UNCHANGED <<state, sock, pc, elapsed, sent>>
       ELSE /\ sock' = TRUE
            /\ elapsed' = 0
            /\ IF make_connect(module) = ValueError
               THEN /\ state' = "ERROR"
                    /\ sent' = <<>>
                    /\ pc' = "idle"
                    /\ ret' = Ret("connect", "call", <<>>, "False")
               ELSE /\ state' = "CONNECTING"
                    /\ sent' = <<make_connect(module)>>
                    /\ pc' = "connecting"
                    /\ ret' = Ret("connect", "call", <<>>, "waiting")
    /\ UNCHANGED <<module, frame_callback, delivered>>

\* connect(): recvfrom() returns data after dt ticks, up to the next
\* recvfrom() or the return
connect_recv(data, dt) ==
    /\ pc = "connecting"
    /\ LET msg == parse_message(data)
           now == elapsed + dt
       IN  /\ elapsed' = now
           /\ IF msg = ValueError
              THEN /\ state' = "ERROR"
                   /\ pc' = "idle"
                   /\ ret' = Ret("connect", "recv", data, "False")
              ELSE IF msg.msg_type = "ACKN"
              THEN /\ state' = "CONNECTED"
                   /\ pc' = "idle"
                   /\ ret' = Ret("connect", "recv", data, "True")
              ELSE IF msg.msg_type = "NACK"
              THEN /\ state' = "ERROR"
                   /\ pc' = "idle"
                   /\ ret' = Ret("connect", "recv", data, "False")
              ELSE IF now < TimeoutTicks
              THEN /\ ret' = Ret("connect", "recv", data, "waiting")
                   /\ UNCHANGED <<state, pc>>
              ELSE /\ state' = "ERROR"
                   /\ pc' = "idle"
                   /\ ret' = Ret("connect", "recv", data, "False")
    /\ UNCHANGED <<sock, module, frame_callback, sent, delivered>>

\* connect(): recvfrom() raises socket.timeout after the full timeout; the
\* loop condition then fails
connect_timeout ==
    /\ pc = "connecting"
    /\ state' = "ERROR"
    /\ pc' = "idle"
    /\ elapsed' = elapsed + TimeoutTicks
    /\ ret' = Ret("connect", "timeout", <<>>, "False")
    /\ UNCHANGED <<sock, module, frame_callback, sent, delivered>>

\* disconnect() that closes the socket but leaves _state alone
disconnect_stale ==
    /\ pc = "idle"
    /\ IF ~sock
       THEN UNCHANGED <<state, sock, sent>>
       ELSE /\ sent' = IF state = "CONNECTED"
                       THEN Append(sent, make_disconnect) ELSE sent
            /\ sock' = FALSE
            /\ UNCHANGED state
    /\ ret' = Ret("disconnect", "call", <<>>, "None")
    /\ UNCHANGED <<module, frame_callback, pc, elapsed, delivered>>

disconnect ==
    /\ pc = "idle"
    /\ IF ~sock
       THEN UNCHANGED <<state, sock, sent>>
       ELSE /\ sent' = IF state = "CONNECTED"
                       THEN Append(sent, make_disconnect) ELSE sent
            /\ state' = "DISCONNECTED"
            /\ sock' = FALSE
    /\ ret' = Ret("disconnect", "call", <<>>, "None")
    /\ UNCHANGED <<module, frame_callback, pc, elapsed, delivered>>

\* send_frame() that tests for a socket instead of is_connected
send_frame_anysock(frame) ==
    /\ pc = "idle"
    /\ IF ~sock
       THEN /\ ret' = Ret("send_frame", "call", frame_bytes[frame],
                          "RuntimeError")
            /\ UNCHANGED sent
       ELSE /\ Len(sent) < MaxSent
            /\ sent' = Append(sent, frame_bytes[frame])
            /\ ret' = Ret("send_frame", "call", frame_bytes[frame], "None")
    /\ UNCHANGED <<state, sock, module, frame_callback, pc, elapsed,
                   delivered>>

send_frame(frame) ==
    /\ pc = "idle"
    /\ IF ~is_connected \/ ~sock
       THEN /\ ret' = Ret("send_frame", "call", frame_bytes[frame],
                          "RuntimeError")
            /\ UNCHANGED sent
       ELSE /\ Len(sent) < MaxSent
            /\ sent' = Append(sent, frame_bytes[frame])
            /\ ret' = Ret("send_frame", "call", frame_bytes[frame], "None")
    /\ UNCHANGED <<state, sock, module, frame_callback, pc, elapsed,
                   delivered>>

set_frame_callback ==
    /\ pc = "idle"
    /\ ~frame_callback
    /\ frame_callback' = TRUE
    /\ ret' = Ret("set_frame_callback", "call", <<>>, "None")
    /\ UNCHANGED <<state, sock, module, pc, elapsed, sent, delivered>>

\* handle_message() that only logs a NACK
handle_effect_nack_logged(data) ==
    LET msg == parse_message(data)
        same == [state |-> state, sent |-> sent, delivered |-> delivered,
                 result |-> "None"]
    IN  IF msg = ValueError THEN same
        ELSE IF msg.msg_type = "PING"
        THEN IF ~sock THEN [same EXCEPT !.result = "RuntimeError"]
             ELSE [same EXCEPT !.sent = Append(sent, make_pong)]
        ELSE IF msg.msg_type = "M17_FRAME"
        THEN IF IPFrame_from_bytes(data) = ValueError THEN same
             ELSE [same EXCEPT !.delivered = IF frame_callback
                                             THEN delivered + 1
                                             ELSE delivered,
                               !.result = "IPFrame"]
        ELSE same

\* handle_message() that treats an unparseable datagram as a failure of the
\* connection, as connect() does
handle_effect_strict(data) ==
    LET msg == parse_message(data)
        same == [state |-> state, sent |-> sent, delivered |-> delivered,
                 result |-> "None"]
    IN  IF msg = ValueError THEN [same EXCEPT !.state = "ERROR"]
        ELSE IF msg.msg_type = "PING"
        THEN IF ~sock THEN [same EXCEPT !.result = "RuntimeError"]
             ELSE [same EXCEPT !.sent = Append(sent, make_pong)]
        ELSE IF msg.msg_type = "NACK"
        THEN [same EXCEPT !.state = "ERROR"]
        ELSE IF msg.msg_type = "M17_FRAME"
        THEN IF IPFrame_from_bytes(data) = ValueError
             THEN [same EXCEPT !.state = "ERROR"]
             ELSE [same EXCEPT !.delivered = IF frame_callback
                                             THEN delivered + 1
                                             ELSE delivered,
                               !.result = "IPFrame"]
        ELSE same

\* the body of handle_message(data): the new state, datagram log and
\* callback count, and the value returned or the exception raised
handle_effect(data) ==
    LET msg == parse_message(data)
        same == [state |-> state, sent |-> sent, delivered |-> delivered,
                 result |-> "None"]
    IN  IF msg = ValueError THEN same
        ELSE IF msg.msg_type = "PING"
        THEN IF ~sock THEN [same EXCEPT !.result = "RuntimeError"]
             ELSE [same EXCEPT !.sent = Append(sent, make_pong)]
        ELSE IF msg.msg_type = "NACK"
        THEN [same EXCEPT !.state = "ERROR"]
        ELSE IF msg.msg_type = "M17_FRAME"
        THEN IF IPFrame_from_bytes(data) = ValueError THEN same
             ELSE [same EXCEPT !.delivered = IF frame_callback
                                             THEN delivered + 1
                                             ELSE delivered,
                               !.result = "IPFrame"]
        ELSE same

handle_message(data) ==
    /\ pc = "idle"
    /\ LET e == handle_effect(data)
       IN  /\ Len(e.sent) <= MaxSent
           /\ e.delivered <= MaxDelivered
           /\ state' = e.state
           /\ sent' = e.sent
           /\ delivered' = e.delivered
           /\ ret' = Ret("handle_message", "call", data, e.result)
    /\ UNCHANGED <<sock, module, frame_callback, pc, elapsed>>

\* poll(): recvfrom() returns data
poll_recv(data) ==
    /\ pc = "idle"
    /\ IF ~sock
       THEN /\ ret' = Ret("poll", "call", <<>>, "None")
            /\ UNCHANGED <<state, sent, delivered>>
       ELSE LET e == handle_effect(data)
            IN  /\ Len(e.sent) <= MaxSent
                /\ e.delivered <= MaxDelivered
                /\ state' = e.state
                /\ sent' = e.sent
                /\ delivered' = e.delivered
                /\ ret' = Ret("poll", "recv", data,
                              IF e.result = "RuntimeError" THEN "None"
                              ELSE e.result)
    /\ UNCHANGED <<sock, module, frame_callback, pc, elapsed>>

\* poll() that gives the connection up when recvfrom() times out
poll_timeout_gives_up ==
    /\ pc = "idle"
    /\ sock
    /\ state' = "ERROR"
    /\ ret' = Ret("poll", "timeout", <<>>, "None")
    /\ UNCHANGED <<sock, module, frame_callback, pc, elapsed, sent, delivered>>

\* poll(): recvfrom() raises socket.timeout
poll_timeout ==
    /\ pc = "idle"
    /\ sock
    /\ ret' = Ret("poll", "timeout", <<>>, "None")
    /\ UNCHANGED <<state, sock, module, frame_callback, pc, elapsed, sent,
                   delivered>>

-----------------------------------------------------------------------------
(* m17/frames/lich.py: LICHCollector *)

\* the Link Setup Frames put on the air: scenario S3 (@ALL <- W2FBI, voice
\* stream, zero META) and a frame with no two chunks alike
LSFs ==
    {LinkSetupFrame(BROADCAST_ADDRESS, encode_callsign(W2FBI), 5, zeros(14)),
     LinkSetupFrame(encode_callsign(W2FBI), encode_callsign(callsign), 7,
                    [i \in 1..14 |-> 16 + i])}

CallL(op, chunk, frame_number, result) ==
    [op |-> op, chunk |-> chunk, frame_number |-> frame_number,
     result |-> result]

\* the sender splits its LSF: LinkSetupFrame.chunks() or
\* LICHFrame.from_lsf(lsf).chunks()
split(via) ==
    /\ txChunks = <<>>
    /\ txChunks' = IF via = "LinkSetupFrame" THEN LSF_chunks(lsf)
                   ELSE LICH_chunks(from_lsf(lsf))
    /\ call' = CallL("chunks", <<>>, 0, via)
    /\ UNCHANGED <<lsf, chunks, complete, fed, pure>>

\* add_chunk() that tests for completion before it stores the chunk
add_chunk_early(chunk, frame_number) ==
    IF Len(chunk) # 6
    THEN /\ call' = CallL("add_chunk", chunk, frame_number, "ValueError")
         /\ UNCHANGED <<lsf, txChunks, chunks, complete, fed, pure>>
    ELSE LET index == frame_number % 5
             stored == [chunks EXCEPT ![index + 1] = chunk]
             all == \A i \in 1..5 : chunks[i] # None
         IN  /\ chunks' = stored
             /\ complete' = all
             /\ call' = CallL("add_chunk", chunk, frame_number,
                              IF all THEN "True" ELSE "False")
             /\ fed' = fed \cup {index}
             /\ pure' = (pure /\ chunk = get_chunk(from_lsf(lsf),
                                                   frame_number))
             /\ UNCHANGED <<lsf, txChunks>>

add_chunk(chunk, frame_number) ==
    IF Len(chunk) # 6
    THEN /\ call' = CallL("add_chunk", chunk, frame_number, "ValueError")
         /\ UNCHANGED <<lsf, txChunks, chunks, complete, fed, pure>>
    ELSE LET index == frame_number % 5
             stored == [chunks EXCEPT ![index + 1] = chunk]
             all == \A i \in 1..5 : stored[i] # None
         IN  /\ chunks' = stored
             /\ complete' = all
             /\ call' = CallL("add_chunk", chunk, frame_number,
                              IF all THEN "True" ELSE "False")
             /\ fed' = fed \cup {index}
             /\ pure' = (pure /\ chunk = get_chunk(from_lsf(lsf),
                                                   frame_number))
             /\ UNCHANGED <<lsf, txChunks>>

reset ==
    /\ chunks' = [i \in 1..5 |-> None]
    /\ complete' = FALSE
    /\ call' = CallL("reset", <<>>, 0, "None")
    /\ fed' = {}
    /\ pure' = TRUE
    /\ UNCHANGED <<lsf, txChunks>>

is_complete == complete

chunks_received == Cardinality({i \in 1..5 : chunks[i] # None})

\* b"".join(c for c in self._chunks if c is not None)
joined == Concat([i \in 1..5 |-> IF chunks[i] # None THEN chunks[i]
                                 ELSE <<>>])

\* get_lsf() that keeps the two padding bytes
get_lsf_padded ==
    IF ~complete THEN None ELSE LSF_from_bytes(joined)

get_lsf ==
    IF ~complete THEN None ELSE LSF_from_bytes(Slice(joined, 0, 28))

-----------------------------------------------------------------------------
(* Calls of the codec functions *)

\* a call of function fn on arg returning out (or raising, out = ValueError),
\* the steps-th call of a chain that started from input
Call(input, steps, fn, arg, out) ==
    [input |-> input, steps |-> steps, fn |-> fn, arg |-> arg, out |-> out]

\* no codec function has been called
NoCall == Call(None, 0, "none", None, None)

\* a chain about to start: the input has been chosen
Chosen(kind, x) == Call(x, 0, kind, None, x)

-----------------------------------------------------------------------------
(* The reflector connection *)

Init ==
    /\ state = "DISCONNECTED"
    /\ sock = FALSE
    /\ module \in Modules
    /\ frame_callback = FALSE
    /\ pc = "idle"
    /\ elapsed = 0
    /\ sent = <<>>
    /\ delivered = 0
    /\ ret = Ret("init", "call", <<>>, "None")
    /\ lsf = None
    /\ txChunks = <<>>
    /\ chunks = [i \in 1..5 |-> None]
    /\ complete = FALSE
    /\ call = CallL("init", <<>>, 0, "None")
    /\ fed = {}
    /\ pure = TRUE
    /\ codec = NoCall
    /\ orphans = 0
    /\ stream = None

Next ==
    \/ (connect /\ UNCHANGED <<lichVars, codec, orphans, stream>>)
    \/ (\E d \in Inbound : \E dt \in 0..(TimeoutTicks - 1) :
            connect_recv(d, dt)
            /\ UNCHANGED <<lichVars, codec, orphans, stream>>)
    \/ (connect_timeout /\ UNCHANGED <<lichVars, codec, orphans, stream>>)
    \/ (disconnect /\ UNCHANGED <<lichVars, codec, orphans, stream>>)
    \/ (\E f \in Frames :
            send_frame(f) /\ UNCHANGED <<lichVars, codec, orphans, stream>>)
    \/ (set_frame_callback /\ UNCHANGED <<lichVars, codec, orphans, stream>>)
    \/ (\E d \in Inbound :
            handle_message(d)
            /\ UNCHANGED <<lichVars, codec, orphans, stream>>)
    \/ (\E d \in Inbound :
            poll_recv(d) /\ UNCHANGED <<lichVars, codec, orphans, stream>>)
    \/ (poll_timeout /\ UNCHANGED <<lichVars, codec, orphans, stream>>)

Spec == Init /\ [][Next]_vars

-----------------------------------------------------------------------------
(* m17/net/reflector.py: M17ReflectorClient *)

\* connect(host, port, module, timeout): _conn becomes a new
\* ReflectorConnection, whose connect() then runs up to its first
\* recvfrom().  The connection held before is dropped as it is: when its
\* socket is open nothing closes it, and whether the runtime has finalised
\* the socket object by now depends on the runtime and on other references.
client_connect(m) ==
    /\ pc = "idle"
    /\ orphans < MaxOrphans
    /\ orphans' \in (IF sock THEN {orphans, orphans + 1} ELSE {orphans})
    /\ module' = m
    /\ frame_callback' = FALSE
    /\ delivered' = 0
    /\ sock' = TRUE
    /\ elapsed' = 0
    /\ IF make_connect(m) = ValueError
       THEN /\ state' = "ERROR"
            /\ sent' = <<>>
            /\ pc' = "idle"
            /\ ret' = Ret("connect", "call", m, "False")
       ELSE /\ state' = "CONNECTING"
            /\ sent' = <<make_connect(m)>>
            /\ pc' = "connecting"
            /\ ret' = Ret("connect", "call", m, "waiting")

\* disconnect(): _conn.disconnect(), then _conn = None
client_disconnect ==
    /\ disconnect
    /\ UNCHANGED orphans

(* The high-level reflector client *)

NextClient ==
    \/ (\E m \in Modules :
            client_connect(m) /\ UNCHANGED <<lichVars, codec, stream>>)
    \/ (\E d \in Inbound : \E dt \in 0..(TimeoutTicks - 1) :
            connect_recv(d, dt)
            /\ UNCHANGED <<lichVars, codec, orphans, stream>>)
    \/ (connect_timeout /\ UNCHANGED <<lichVars, codec, orphans, stream>>)
    \/ (client_disconnect /\ UNCHANGED <<lichVars, codec, stream>>)

SpecClient == Init /\ [][NextClient]_vars

\* C24: the client owns one socket scoped to the connection: at most one
\* socket it opened is open at any time, and none is open once the client is
\* back in DISCONNECTED
C24_OneSocketScopedToConnection ==
    /\ (IF sock THEN 1 ELSE 0) + orphans <= 1
    /\ (state = "DISCONNECTED" => (~sock /\ orphans = 0))

-----------------------------------------------------------------------------
(* LICH transmission and reassembly *)

InitLICH ==
    /\ lsf \in LSFs
    /\ txChunks = <<>>
    /\ chunks = [i \in 1..5 |-> None]
    /\ complete = FALSE
    /\ call = CallL("init", <<>>, 0, "None")
    /\ fed = {}
    /\ pure = TRUE
    /\ state = "DISCONNECTED"
    /\ sock = FALSE
    /\ module = <<65>>
    /\ frame_callback = FALSE
    /\ pc = "idle"
    /\ elapsed = 0
    /\ sent = <<>>
    /\ delivered = 0
    /\ ret = Ret("init", "call", <<>>, "None")
    /\ codec = NoCall
    /\ orphans = 0
    /\ stream = None

NextLICH ==
    \/ (\E via \in {"LinkSetupFrame", "LICHFrame"} :
            split(via) /\ UNCHANGED <<reflVars, codec, orphans, stream>>)
    \* the chunk a stream frame brings: a 6-byte chunk of another
    \* transmission, a 7-byte chunk, or the sender's chunk for that frame
    \* number
    \/ (\E n \in 0..MaxFrameNumber :
         \E c \in {<<222, 173, 190, 239, 0, 1>>, <<1, 2, 3, 4, 5, 6, 7>>}
                      \cup (IF txChunks = <<>> THEN {}
                            ELSE {txChunks[(n % 5) + 1]}) :
            add_chunk(c, n) /\ UNCHANGED <<reflVars, codec, orphans, stream>>)
    \/ (reset /\ UNCHANGED <<reflVars, codec, orphans, stream>>)

SpecLICH == InitLICH /\ [][NextLICH]_vars

-----------------------------------------------------------------------------
(* Properties of the reflector connection *)

HasPrefix(d, p) == Len(d) >= 4 /\ SubSeq(d, 1, 4) = p

\* b"CONN", b"DISC", b"PING", b"PONG", b"ACKN", b"NACK", b"M17 "
Alphabet ==
    {<<67, 79, 78, 78>>, <<68, 73, 83, 67>>, <<80, 73, 78, 71>>,
     <<80, 79, 78, 71>>, <<65, 67, 75, 78>>, <<78, 65, 67, 75>>,
     <<77, 49, 55, 32>>}

\* the 6-byte address of N0CALL
SourceAddress == <<0, 0, 75, 19, 209, 6>>

Received(r) == r.op \in {"poll", "handle_message"} /\ r.ev \in {"recv", "call"}

CountPrefix(log, p) == Cardinality({i \in 1..Len(log) : HasPrefix(log[i], p)})

\* C1: a connect() issued in DISCONNECTED (with a single-letter module)
\* sends exactly one CONN datagram and enters CONNECTING; when it returns it
\* has ended in CONNECTED, returning true, on an ACKN, or in ERROR, returning
\* false, on a NACK or with the timeout expired.
C1_ConnectOutcome ==
    [][/\ (ret'.op = "connect" /\ ret'.ev = "call" /\ state = "DISCONNECTED"
            /\ Len(module) = 1 /\ isalpha(module))
          => /\ state' = "CONNECTING"
             /\ Len(sent') = 1
             /\ HasPrefix(sent'[1], <<67, 79, 78, 78>>)
       /\ (pc = "connecting") => sent' = sent
       /\ (pc = "connecting" /\ pc' = "idle")
          => \/ /\ HasPrefix(ret'.arg, <<65, 67, 75, 78>>)
                /\ state' = "CONNECTED"
                /\ ret'.result = "True"
             \/ /\ HasPrefix(ret'.arg, <<78, 65, 67, 75>>)
                /\ state' = "ERROR"
                /\ ret'.result = "False"
             \/ /\ elapsed' >= TimeoutTicks
                /\ state' = "ERROR"
                /\ ret'.result = "False"]_vars

\* C2: in any state other than CONNECTED send_frame fails with "Not
\* connected" and emits no datagram; in CONNECTED it puts the frame's 54
\* bytes on the socket.
C2_SendFrameOnlyConnected ==
    [][ret'.op = "send_frame"
       => IF state = "CONNECTED"
          THEN /\ ret'.result = "None"
               /\ Len(ret'.arg) = 54
               /\ sent' = Append(sent, ret'.arg)
          ELSE /\ ret'.result = "RuntimeError"
               /\ sent' = sent]_vars

C2_Witness ==
    /\ ret.op = "send_frame"
    /\ ret.result = "RuntimeError"
    /\ state = "ERROR"
    /\ sock

\* C3: every PING received while CONNECTED is answered with exactly one
\* datagram, PONG followed by the 6-byte source address, and the state
\* stays CONNECTED.
C3_PingAnswered ==
    [][(Received(ret') /\ HasPrefix(ret'.arg, <<80, 73, 78, 71>>)
            /\ state = "CONNECTED")
       => /\ sent' = Append(sent, <<80, 79, 78, 71>> \o SourceAddress)
          /\ state' = "CONNECTED"]_vars

C3_Witness ==
    /\ ret.op = "poll"
    /\ HasPrefix(ret.arg, <<80, 73, 78, 71>>)
    /\ state = "CONNECTED"
    /\ Len(sent) >= 2
    /\ HasPrefix(sent[Len(sent)], <<80, 79, 78, 71>>)

\* C4: disconnect() in CONNECTED emits the single datagram DISC followed by
\* the 6-byte source address, leaves the connection DISCONNECTED and returns
\* at once; a socket never carries more than one DISC, and a further
\* disconnect() emits nothing.
C4_DisconnectOnce ==
    /\ [](CountPrefix(sent, <<68, 73, 83, 67>>) <= 1)
    /\ [][ret'.op = "disconnect"
          => /\ pc' = "idle"
             /\ IF state = "CONNECTED"
                THEN /\ sent' = Append(sent, <<68, 73, 83, 67>>
                                                \o SourceAddress)
                     /\ state' = "DISCONNECTED"
                     /\ ~sock'
                ELSE sent' = sent]_vars

C4_Witness ==
    /\ ret.op = "disconnect"
    /\ state = "DISCONNECTED"
    /\ ~sock
    /\ Len(sent) >= 2
    /\ sent[Len(sent)] = <<68, 73, 83, 67>> \o SourceAddress

\* C5: while CONNECTING, a received datagram other than ACKN or NACK (PING,
\* PONG, an M17 frame, an unknown prefix, fewer than 4 bytes) is ignored:
\* with time left the connection stays CONNECTING and keeps waiting, so a
\* later ACKN still connects.
C5_IgnoredWhileConnecting ==
    [][(pc = "connecting" /\ ret'.ev = "recv"
            /\ ~HasPrefix(ret'.arg, <<65, 67, 75, 78>>)
            /\ ~HasPrefix(ret'.arg, <<78, 65, 67, 75>>)
            /\ elapsed' < TimeoutTicks)
       => /\ state' = "CONNECTING"
          /\ pc' = "connecting"
          /\ sock']_vars

\* C6: a NACK received while CONNECTED moves the connection to ERROR; from
\* there every send_frame fails, and the connection becomes CONNECTED again
\* only by a connect() that succeeds.
C6_NackThenError ==
    [][/\ (Received(ret') /\ HasPrefix(ret'.arg, <<78, 65, 67, 75>>)
            /\ state = "CONNECTED")
          => state' = "ERROR"
       /\ (state # "CONNECTED" /\ ret'.op = "send_frame")
          => (ret'.result = "RuntimeError" /\ sent' = sent)
       /\ (state # "CONNECTED" /\ state' = "CONNECTED")
          => (ret'.op = "connect" /\ ret'.result = "True")]_vars

C6_Witness ==
    /\ ret.op = "poll"
    /\ HasPrefix(ret.arg, <<78, 65, 67, 75>>)
    /\ state = "ERROR"
    /\ \E i \in 1..Len(sent) : HasPrefix(sent[i], <<77, 49, 55, 32>>)

Unparseable(d) ==
    \/ Len(d) < 4
    \/ SubSeq(d, 1, 4) \notin Alphabet
    \/ (SubSeq(d, 1, 4) = <<77, 49, 55, 32>> /\ Len(d) # 54)

\* C7: in the receive path a datagram that cannot be classified or parsed
\* (unknown prefix, fewer than 4 bytes, an "M17 " datagram that is not a
\* 54-byte frame) is dropped: state, socket and datagram log are unchanged,
\* no frame is delivered, and the receive path stays available.
C7_GarbageDropped ==
    [][(Received(ret') /\ Unparseable(ret'.arg))
       => /\ state' = state
          /\ sock' = sock
          /\ sent' = sent
          /\ delivered' = delivered
          /\ ret'.result = "None"
          /\ pc' = "idle"]_vars

C7_Witness ==
    /\ ret.op = "poll"
    /\ ret.ev = "recv"
    /\ Unparseable(ret.arg)
    /\ Len(ret.arg) = 53
    /\ state = "CONNECTED"
    /\ frame_callback

\* the inbound 54-byte "M17 " datagrams whose CRC field differs from the
\* CRC-16 computed over DST through payload (bytes 6..52)
CrcMismatched ==
    {d \in Inbound : /\ Len(d) = 54
                     /\ HasPrefix(d, M17_MAGIC_NUMBER)
                     /\ from_bytes(Slice(d, 52, 54))
                            # crc_m17(Slice(d, 6, 52))}

\* C11: a 54-byte "M17 " datagram whose CRC field does not match the CRC-16
\* of DST through payload is rejected on receive: handle_message returns no
\* frame and the frame callback is not invoked.
C11_CrcValidatedOnReceive ==
    [][(Received(ret') /\ ret'.arg \in CrcMismatched)
       => (ret'.result # "IPFrame" /\ delivered' = delivered)]_vars

\* C23: silence is not an error: a poll() that times out while CONNECTED
\* leaves the connection CONNECTED with its socket and emits no datagram,
\* however many of them follow one another.
C23_SilenceIsNoError ==
    [][(ret'.op = "poll" /\ ret'.ev = "timeout" /\ state = "CONNECTED")
       => /\ state' = "CONNECTED"
          /\ sock'
          /\ sent' = sent
          /\ pc' = "idle"]_vars

C23_Witness ==
    /\ ret = Ret("poll", "timeout", <<>>, "None")
    /\ state = "CONNECTED"
    /\ Len(sent) = 1

\* C26: connect() called in a state other than DISCONNECTED returns false at
\* once, sends no datagram, opens no socket and leaves the state unchanged.
C26_ConnectRefusedUnlessDisconnected ==
    [][(ret'.op = "connect" /\ ret'.ev = "call" /\ state # "DISCONNECTED")
       => /\ ret'.result = "False"
          /\ pc' = "idle"
          /\ sent' = sent
          /\ sock' = sock
          /\ state' = state]_vars

C26_Witness ==
    /\ ret = Ret("connect", "call", <<>>, "False")
    /\ state = "ERROR"
    /\ sock
    /\ Len(sent) = 1

\* C27: disconnect() leaves the connection DISCONNECTED with no socket from
\* every state, so the connection is never stuck in ERROR: a connect() after
\* a disconnect() is attempted afresh.
C27_DisconnectAlwaysResets ==
    [][ret'.op = "disconnect"
       => (state' = "DISCONNECTED" /\ ~sock')]_vars

\* C28: PONG, DISC and "M17 " datagrams are emitted only while CONNECTED:
\* the only datagram sent in another state is the CONN of a connect().
C28_EmitsOnlyWhenConnected ==
    [][(Len(sent') = Len(sent) + 1
            /\ ~HasPrefix(sent'[Len(sent')], <<67, 79, 78, 78>>))
       => state = "CONNECTED"]_vars

\* C20: every IP frame on outbound traffic has a stream ID in 1..0xFFFF: no
\* "M17 " datagram with stream ID 0 is passed to sendto().
C20_StreamIdNonZero ==
    \A i \in 1..Len(sent) :
        HasPrefix(sent[i], M17_MAGIC_NUMBER)
            => from_bytes(Slice(sent[i], 4, 6)) \in 1..65535

-----------------------------------------------------------------------------
(* Properties of LICH transmission and reassembly *)

\* C8: an accepted add_chunk(chunk, frame_number) overwrites slot
\* frame_number mod 5 with the chunk and touches no other slot, reset empties
\* all slots, and is_complete holds exactly when all 5 slots are populated,
\* that is when chunks_received = 5.
C8_SlotsAndCompletion ==
    /\ [](/\ is_complete <=> (\A i \in 1..5 : chunks[i] # None)
          /\ is_complete <=> (chunks_received = 5))
    /\ [][/\ (call'.op = "add_chunk" /\ call'.result # "ValueError")
             => chunks' = [i \in 1..5 |->
                             IF i = (call'.frame_number % 5) + 1
                             THEN call'.chunk ELSE chunks[i]]
          /\ (call'.op = "add_chunk" /\ call'.result = "ValueError")
             => chunks' = chunks
          /\ (call'.op = "reset")
             => \A i \in 1..5 : chunks'[i] = None]_vars

C8_Witness ==
    /\ call.op = "add_chunk"
    /\ call.result = "True"
    /\ call.frame_number >= 5
    /\ ~pure
    /\ chunks_received = 5

\* C9: when every chunk stored since the collector was fresh is the LSF's
\* own chunk for its frame number, the collector is complete exactly once
\* all five slot indices have been fed, and the reconstructed LSF then
\* equals the original 28 bytes.
C9_Reassembly ==
    pure => /\ is_complete <=> (Cardinality(fed) = 5)
            /\ is_complete
               => /\ get_lsf # ValueError
                  /\ to_bytes_without_crc(get_lsf) = to_bytes_without_crc(lsf)
                  /\ Len(to_bytes_without_crc(get_lsf)) = 28

C9_Witness ==
    /\ pure
    /\ is_complete
    /\ call.op = "add_chunk"
    /\ call.frame_number = 6
    /\ to_bytes_without_crc(get_lsf) = to_bytes_without_crc(lsf)

\* C10: splitting an LSF pads its 28 bytes to 30 with two zero bytes and
\* yields exactly five chunks of exactly 6 bytes, each accepted by
\* add_chunk.
C10_SplitPadded ==
    /\ [](txChunks # <<>>
          => /\ Len(txChunks) = 5
             /\ \A i \in 1..5 : Len(txChunks[i]) = 6
             /\ Concat(txChunks) = to_bytes_without_crc(lsf) \o <<0, 0>>)
    /\ [][(call'.op = "add_chunk" /\ txChunks # <<>>
            /\ call'.chunk = txChunks[(call'.frame_number % 5) + 1])
          => call'.result # "ValueError"]_vars

-----------------------------------------------------------------------------
(* The address codec: encode_callsign and decode_callsign *)

\* no connection and no collector is in use
Unused ==
    /\ state = "DISCONNECTED"
    /\ sock = FALSE
    /\ module = <<65>>
    /\ frame_callback = FALSE
    /\ pc = "idle"
    /\ elapsed = 0
    /\ sent = <<>>
    /\ delivered = 0
    /\ ret = Ret("init", "call", <<>>, "None")
    /\ lsf = None
    /\ txChunks = <<>>
    /\ chunks = [i \in 1..5 |-> None]
    /\ complete = FALSE
    /\ call = CallL("init", <<>>, 0, "None")
    /\ fed = {}
    /\ pure = TRUE
    /\ orphans = 0

\* callsign strings passed to encode_callsign: "W2FBI/P", "SP5WWP", "n0call",
\* ".........", "A       Z", " W2FBI", and every short string over " ", "A",
\* "a", "9", "."
Callsigns ==
    {<<87, 50, 70, 66, 73, 47, 80>>, <<83, 80, 53, 87, 87, 80>>,
     <<110, 48, 99, 97, 108, 108>>, [i \in 1..9 |-> 46],
     <<65, 32, 32, 32, 32, 32, 32, 32, 90>>, <<32, 87, 50, 70, 66, 73>>}
        \cup UNION {[1..n -> {32, 65, 97, 57, 46}] : n \in 0..MaxCallsignLen}

\* 48-bit values passed to decode_callsign: small ones, the ends of the
\* three valid ranges, and two values between the hash range and broadcast
AddressValues ==
    {<<0, n>> : n \in 0..MaxAddressValue}
        \cup {<<0, Limb - 1>>, <<1, 0>>, <<0, 64000>>, <<0, 1600>>,
              MAX_CALLSIGN_VALUE, HASH_ADDRESS_MIN,
              AddrAdd(HASH_ADDRESS_MIN, <<0, 1>>),
              AddrAdd(HASH_ADDRESS_MIN, <<0, 40>>),
              HASH_ADDRESS_MAX, BROADCAST_ADDRESS,
              AddrAdd(HASH_ADDRESS_MAX, <<0, 1>>),
              AddrSub(BROADCAST_ADDRESS, <<0, 1>>)}

\* encode_callsign(callsign) on the chosen string or on the decoded one
encode_callsign_call ==
    /\ \/ codec.fn = "str"
       \/ (codec.fn = "decode_callsign" /\ codec.steps = 1
             /\ codec.out # ValueErrorSeq)
    /\ codec' = Call(codec.input, codec.steps + 1, "encode_callsign",
                     codec.out, encode_callsign(codec.out))
    /\ UNCHANGED <<reflVars, lichVars, orphans, stream>>

\* decode_callsign(addr) on the chosen value or on the encoded one
decode_callsign_call ==
    /\ \/ codec.fn = "int"
       \/ (codec.fn = "encode_callsign" /\ codec.steps = 1
             /\ codec.out # ValueErrorSeq)
    /\ codec' = Call(codec.input, codec.steps + 1, "decode_callsign",
                     codec.out, decode_callsign(codec.out))
    /\ UNCHANGED <<reflVars, lichVars, orphans, stream>>

-----------------------------------------------------------------------------
(* Properties of the address codec *)

\* strings of at most 9 characters of the 40-symbol alphabet, letters in
\* either case
InCallsignAlphabet(s) ==
    /\ Len(s) <= 9
    /\ \A i \in 1..Len(s) : InAlphabet(str_upper(<<s[i]>>)[1])

\* decode_callsign(encode_callsign(s)) has been computed for a string s of
\* the alphabet
Decoded ==
    /\ codec.fn = "decode_callsign"
    /\ codec.steps = 2
    /\ InCallsignAlphabet(codec.input)

\* C12 as stated: for every string s of at most 9 characters of the
\* 40-symbol alphabet, letters in either case, encoding succeeds and
\* decode(encode(s)) equals s.upper().
C12_RoundTripUpper ==
    /\ (codec.fn = "encode_callsign" /\ codec.steps = 1
          /\ InCallsignAlphabet(codec.input)) => codec.out # ValueErrorSeq
    /\ Decoded => codec.out = str_upper(codec.input)

\* C12, amended: for every such s, encoding succeeds and decode(encode(s))
\* equals s.upper() with its leading and trailing spaces removed; it equals
\* s.upper() exactly when s neither begins nor ends with a space.
C12_RoundTripUpperStripped ==
    /\ (codec.fn = "encode_callsign" /\ codec.steps = 1
          /\ InCallsignAlphabet(codec.input)) => codec.out # ValueErrorSeq
    /\ Decoded => /\ codec.out = str_strip(str_upper(codec.input))
                  /\ (codec.out = str_upper(codec.input))
                        <=> (codec.input = <<>>
                             \/ (Head(codec.input) # 32
                                 /\ codec.input[Len(codec.input)] # 32))

C12_Witness ==
    /\ Decoded
    /\ codec.input = <<32, 97, 57>>
    /\ codec.out = <<65, 57>>

\* the valid 48-bit values: regular, hash-prefixed, broadcast
ValidAddress(v) ==
    \/ AddrLeq(v, MAX_CALLSIGN_VALUE)
    \/ (AddrLeq(HASH_ADDRESS_MIN, v) /\ AddrLeq(v, HASH_ADDRESS_MAX))
    \/ v = BROADCAST_ADDRESS

\* C13: for every 48-bit value v in a valid range (regular, hash,
\* broadcast) decode(v) succeeds and encode(decode(v)) = v.
C13_ValueRoundTrip ==
    /\ (codec.fn = "decode_callsign" /\ codec.steps = 1
          /\ ValidAddress(codec.input)) => codec.out # ValueErrorSeq
    /\ (codec.fn = "encode_callsign" /\ codec.steps = 2
          /\ ValidAddress(codec.input)) => codec.out = codec.input

-----------------------------------------------------------------------------
(* The CRC: crc_m17_bytes and verify_crc *)

CrcBytes == {0, 1, 65, 255}

\* data the CRC is computed over: short strings in full, b"123456789", and
\* the 28 bytes of an LSF without its CRC
CrcData ==
    UNION {[1..n -> CrcBytes] : n \in 0..MaxCrcLen}
        \cup {[i \in 1..9 |-> 48 + i]}
        \cup {to_bytes_without_crc(f) : f \in LSFs}

\* crc_m17_bytes(data) on the chosen data
crc_m17_bytes_call ==
    /\ codec.fn = "bytes"
    /\ codec' = Call(codec.input, 1, "crc_m17_bytes", codec.input,
                     crc_m17_bytes(codec.input))
    /\ UNCHANGED <<reflVars, lichVars, orphans, stream>>

\* verify_crc(data + tail), the tail being the CRC computed before or two
\* other bytes
verify_crc_call(tail) ==
    /\ codec.fn = "crc_m17_bytes"
    /\ codec' = Call(codec.input, 2, "verify_crc", codec.input \o tail,
                     verify_crc(codec.input \o tail))
    /\ UNCHANGED <<reflVars, lichVars, orphans, stream>>

-----------------------------------------------------------------------------
(* Properties of the CRC *)

\* C14: the CRC-16 (polynomial 0x5935, initial value 0xFFFF: b"" gives
\* 0xFFFF, b"123456789" gives 0x772B) of a byte string followed by its own
\* big-endian CRC is 0, and verify_crc accepts data followed by two bytes
\* exactly when the two bytes are the CRC of the data.
C14_CrcOfDataAndCrcIsZero ==
    /\ codec.fn = "crc_m17_bytes"
          => /\ crc_m17(codec.input \o codec.out) = 0
             /\ codec.input = <<>> => codec.out = <<255, 255>>
             /\ codec.input = [i \in 1..9 |-> 48 + i]
                   => codec.out = <<119, 43>>
    /\ codec.fn = "verify_crc"
          => (codec.out
                <=> SubSeq(codec.arg, Len(codec.input) + 1, Len(codec.arg))
                        = crc_m17_bytes(codec.input))

C14_Witness ==
    /\ codec.fn = "verify_crc"
    /\ codec.out
    /\ Len(codec.input) = 28

-----------------------------------------------------------------------------
(* m17/codec/puncture.py *)

PUNCTURE_P1 ==
    <<1, 1, 0, 1, 1, 1, 0, 1, 1, 1, 0, 1, 1, 1, 0, 1, 1,
      1, 0, 1, 1, 1, 0, 1, 1, 1, 0, 1, 1, 1, 0, 1, 1,
      1, 0, 1, 1, 1, 0, 1, 1, 1, 0, 1, 1, 1, 0, 1, 1,
      1, 0, 1, 1, 1, 0, 1, 1, 1, 0, 1, 1>>

PUNCTURE_P2 == <<1, 1, 1, 1, 1, 1, 1, 1, 1, 1, 1, 0>>

PUNCTURE_P3 == <<1, 1, 1, 1, 1, 1, 1, 0>>

\* "for bit in bits: if pattern[p]: output.append(bit); p = (p + 1) % len":
\* the bits at the positions where the repeated pattern holds 1, in order
puncture(bits, pattern) ==
    LET kept == SelectSeq([i \in 1..Len(bits) |-> i],
                          LAMBDA i : pattern[((i - 1) % Len(pattern)) + 1] = 1)
    IN  [k \in 1..Len(kept) |-> bits[kept[k]]]

puncture_lsf(bits) ==
    IF Len(bits) # 488 THEN ValueErrorSeq ELSE puncture(bits, PUNCTURE_P1)

puncture_stream(bits) ==
    IF Len(bits) # 296 THEN ValueErrorSeq ELSE puncture(bits, PUNCTURE_P2)

puncture_packet(bits) ==
    IF Len(bits) # 420 THEN ValueErrorSeq ELSE puncture(bits, PUNCTURE_P3)

puncture_bert(bits) ==
    IF Len(bits) # 402 THEN ValueErrorSeq ELSE puncture(bits, PUNCTURE_P2)

\* encoded frames: every bit pattern of period at most MaxBitPeriod,
\* repeated to the lengths of the encoded LSF, stream, BERT and packet
\* frames, and to one that is none of them
EncodedBits ==
    {[i \in 1..n |-> w[((i - 1) % Len(w)) + 1]] :
        n \in {488, 296, 402, 420, 400},
        w \in UNION {[1..p -> {0, 1}] : p \in 1..MaxBitPeriod}}

puncture_lsf_call ==
    /\ codec.fn = "bits"
    /\ codec' = Call(codec.input, 1, "puncture_lsf", codec.input,
                     puncture_lsf(codec.input))
    /\ UNCHANGED <<reflVars, lichVars, orphans, stream>>

puncture_stream_call ==
    /\ codec.fn = "bits"
    /\ codec' = Call(codec.input, 1, "puncture_stream", codec.input,
                     puncture_stream(codec.input))
    /\ UNCHANGED <<reflVars, lichVars, orphans, stream>>

puncture_packet_call ==
    /\ codec.fn = "bits"
    /\ codec' = Call(codec.input, 1, "puncture_packet", codec.input,
                     puncture_packet(codec.input))
    /\ UNCHANGED <<reflVars, lichVars, orphans, stream>>

puncture_bert_call ==
    /\ codec.fn = "bits"
    /\ codec' = Call(codec.input, 1, "puncture_bert", codec.input,
                     puncture_bert(codec.input))
    /\ UNCHANGED <<reflVars, lichVars, orphans, stream>>

-----------------------------------------------------------------------------
(* Properties of puncturing *)

\* C15: puncturing a frame-sized input yields exactly the stated length:
\* P1 maps 488 bits to 368 (LSF), P2 maps 296 bits to 272 (stream) and 402
\* bits to 368 (BERT), P3 maps 420 bits to 368 (packet).
C15_PuncturedLengths ==
    /\ (codec.fn = "puncture_lsf" /\ Len(codec.arg) = 488)
          => Len(codec.out) = 368
    /\ (codec.fn = "puncture_stream" /\ Len(codec.arg) = 296)
          => Len(codec.out) = 272
    /\ (codec.fn = "puncture_bert" /\ Len(codec.arg) = 402)
          => Len(codec.out) = 368
    /\ (codec.fn = "puncture_packet" /\ Len(codec.arg) = 420)
          => Len(codec.out) = 368

-----------------------------------------------------------------------------
(* m17/codec/convolutional.py and m17/codec/viterbi.py *)

\* conv_encode(data, flush=True)
conv_encode(data) ==
    LET ud == <<0, 0, 0, 0>> \o data \o <<0, 0, 0, 0>>
        g1(i) == (ud[i + 4] + ud[i + 1] + ud[i]) % 2
        g2(i) == (ud[i + 4] + ud[i + 3] + ud[i + 2] + ud[i]) % 2
    IN  [k \in 1..(2 * (Len(ud) - 4)) |->
            IF k % 2 = 1 THEN g1((k + 1) \div 2) ELSE g2(k \div 2)]

VITERBI_HIST_LEN == 244

COST_TABLE_0 == <<0, 0, 0, 0, 65535, 65535, 65535, 65535>>

COST_TABLE_1 == <<0, 65535, 65535, 0, 0, 65535, 65535, 0>>

_q_abs_diff(a, b) == IF a >= b THEN a - b ELSE b - a

\* ViterbiDecoder.reset(): _prev_metrics (state i at index i + 1), and the
\* history written so far (one set of trellis states per position: the
\* states whose bit is 1)
ViterbiReset ==
    [prev_metrics |-> <<0>> \o [i \in 1..15 |-> 1073741823],
     history |-> <<>>]

\* ViterbiDecoder.decode_bit(s0, s1) on a decoder with room in its history
decode_bit(dec, s0, s1) ==
    LET pm == dec.prev_metrics
        bm0(i) == _q_abs_diff(COST_TABLE_0[i + 1], s0)
                      + _q_abs_diff(COST_TABLE_1[i + 1], s1)
        bm1(i) == 131070 - bm0(i)
        \* the two paths into state j: m0, m1 for even j, m2, m3 for odd j
        first(j) == pm[(j \div 2) + 1]
                        + (IF j % 2 = 0 THEN bm0(j \div 2) ELSE bm1(j \div 2))
        second(j) == pm[(j \div 2) + 9]
                        + (IF j % 2 = 0 THEN bm1(j \div 2) ELSE bm0(j \div 2))
        m(j) == IF first(j) >= second(j) THEN second(j) ELSE first(j)
    IN  [prev_metrics |-> <<m(0), m(1), m(2), m(3), m(4), m(5), m(6), m(7),
                            m(8), m(9), m(10), m(11), m(12), m(13), m(14),
                            m(15)>>,
         history |-> Append(dec.history,
                            {j \in 0..15 : first(j) >= second(j)})]

\* "for i in range(0, len(soft_bits), 2): decoder.decode_bit(...)"
RECURSIVE decode_pairs(_, _)
decode_pairs(dec, soft_bits) ==
    IF soft_bits = <<>> THEN dec
    ELSE LET d == decode_bit(dec, soft_bits[1], soft_bits[2])
         IN  IF d.prev_metrics[1] >= 0
             THEN decode_pairs(d, SubSeq(soft_bits, 3, Len(soft_bits)))
             ELSE d

\* the while loop of chainback: the bit positions set in out_bytes, walking
\* back from history position pos in the 8-bit register st
RECURSIVE chain(_, _, _, _)
chain(history, pos, st, shift) ==
    IF pos = 0 THEN {}
    ELSE LET bit == (st \div 16) \in history[pos]
         IN  (IF bit THEN {(pos - 1) + shift} ELSE {})
                 \cup chain(history, pos - 1,
                            (st \div 2) + (IF bit THEN 128 ELSE 0), shift)

\* ViterbiDecoder.chainback(output_bits): <<decoded bytes, minimum cost>>
chainback(dec, output_bits) ==
    LET bit_pos == output_bits + 4
        pm == dec.prev_metrics
        min_metric == CHOOSE m \in {pm[i] : i \in 1..16} :
                          \A i \in 1..16 : m <= pm[i]
        set == chain(dec.history, Len(dec.history), 0,
                     bit_pos - Len(dec.history))
        bitval(p) == IF p \in set THEN 1 ELSE 0
    IN  <<[k \in 1..((bit_pos + 7) \div 8) |->
              (128 * bitval(8 * (k - 1))) + (64 * bitval((8 * (k - 1)) + 1))
              + (32 * bitval((8 * (k - 1)) + 2))
              + (16 * bitval((8 * (k - 1)) + 3))
              + (8 * bitval((8 * (k - 1)) + 4))
              + (4 * bitval((8 * (k - 1)) + 5))
              + (2 * bitval((8 * (k - 1)) + 6)) + bitval((8 * (k - 1)) + 7)],
          min_metric>>

viterbi_decode(soft_bits) ==
    IF Len(soft_bits) % 2 # 0 THEN ValueErrorSeq
    ELSE IF Len(soft_bits) \div 2 > VITERBI_HIST_LEN THEN ValueErrorSeq
    ELSE chainback(decode_pairs(ViterbiReset, soft_bits),
                   Len(soft_bits) \div 2)

\* hard bits as soft values: 0 -> 0, 1 -> 0xFFFF
soft(bits) == [i \in 1..Len(bits) |-> IF bits[i] = 1 THEN 65535 ELSE 0]

\* _unpack_bits(data): the bits of the bytes, MSB first
_unpack_bits(data) ==
    [i \in 1..(8 * Len(data)) |->
        (data[((i - 1) \div 8) + 1] \div (2 ^ (7 - ((i - 1) % 8)))) % 2]

\* input bit sequences: all up to MaxViterbiBits bits, and the 8-bit and
\* 12-bit sequences 01010011 and 100000001101
InputBits ==
    UNION {[1..n -> {0, 1}] : n \in 0..MaxViterbiBits}
        \cup {<<0, 1, 0, 1, 0, 0, 1, 1>>,
              <<1, 0, 0, 0, 0, 0, 0, 0, 1, 1, 0, 1>>}

conv_encode_call ==
    /\ codec.fn = "message"
    /\ codec' = Call(codec.input, 1, "conv_encode", codec.input,
                     conv_encode(codec.input))
    /\ UNCHANGED <<reflVars, lichVars, orphans, stream>>

\* viterbi_decode on the noiseless soft values of the encoded bits
viterbi_decode_call ==
    /\ codec.fn = "conv_encode"
    /\ codec' = Call(codec.input, 2, "viterbi_decode", soft(codec.out),
                     viterbi_decode(soft(codec.out)))
    /\ UNCHANGED <<reflVars, lichVars, orphans, stream>>

\* depuncture(bits, pattern, fill_value).  The first loop walks the repeated
\* pattern, writing the next bit where it holds 1 and fill_value where it
\* holds 0, and stops when the last bit is written, after `walked` positions;
\* the second loop adds fill_value for every 0 left in the pattern.
depuncture(bits, pattern, fill_value) ==
    LET L == Len(pattern)
        onesBefore(r) == Cardinality({i \in 1..r : pattern[i] = 1})
        k == onesBefore(L)
        onePos == SelectSeq([i \in 1..L |-> i], LAMBDA i : pattern[i] = 1)
        n == Len(bits)
        walked == IF n = 0 THEN 0
                  ELSE (((n - 1) \div k) * L) + onePos[((n - 1) % k) + 1]
        p == walked % L
        rest == IF p = 0 THEN 0
                ELSE Cardinality({i \in (p + 1)..L : pattern[i] = 0})
    IN  [j \in 1..(walked + rest) |->
            IF j > walked THEN fill_value
            ELSE IF pattern[((j - 1) % L) + 1] = 1
            THEN bits[(((j - 1) \div L) * k) + onesBefore((j - 1) % L) + 1]
            ELSE fill_value]

\* viterbi_decode_punctured(soft_bits, pattern) with fill_value = 0x7FFF
viterbi_decode_punctured(soft_bits, pattern) ==
    LET depunctured == depuncture(soft_bits, pattern, 32767)
        decoded == viterbi_decode(depunctured)
        inserted == Len(depunctured) - Len(soft_bits)
    IN  IF decoded = ValueErrorSeq THEN ValueErrorSeq
        ELSE <<decoded[1], decoded[2] - (inserted * 32767)>>

decode_stream(soft_bits) ==
    IF Len(soft_bits) # 272 THEN ValueErrorSeq
    ELSE viterbi_decode_punctured(soft_bits, PUNCTURE_P2)

decode_packet(soft_bits) ==
    IF Len(soft_bits) # 368 THEN ValueErrorSeq
    ELSE viterbi_decode_punctured(soft_bits, PUNCTURE_P3)

\* decode_stream on the chosen soft bits; the argument kept is what
\* depuncture_stream makes of them
decode_stream_call ==
    /\ codec.fn = "soft"
    /\ codec' = Call(codec.input, 1, "decode_stream",
                     depuncture(codec.input, PUNCTURE_P2, 32767),
                     decode_stream(codec.input))
    /\ UNCHANGED <<reflVars, lichVars, orphans, stream>>

\* decode_packet on the chosen soft bits; the argument kept is what
\* depuncture_packet makes of them
decode_packet_call ==
    /\ codec.fn = "soft"
    /\ codec' = Call(codec.input, 1, "decode_packet",
                     depuncture(codec.input, PUNCTURE_P3, 32767),
                     decode_packet(codec.input))
    /\ UNCHANGED <<reflVars, lichVars, orphans, stream>>

-----------------------------------------------------------------------------
(* Properties of the Viterbi decoder *)

\* C16: Viterbi-decoding the noiseless flushed convolutional encoding of x
\* (bit 0 as soft 0, bit 1 as soft 0xFFFF), chaining back from state 0,
\* returns the bits of x packed MSB-first with no bit offset (the first
\* Len(x) bits of the decoded bytes are x), at cost 0.
C16_ViterbiRoundTrip ==
    codec.fn = "viterbi_decode"
        => /\ codec.out[2] = 0
           /\ 8 * Len(codec.out[1]) >= Len(codec.input)
           /\ SubSeq(_unpack_bits(codec.out[1]), 1, Len(codec.input))
                  = codec.input

\* C25: for every input of exactly 272 soft bits decode_stream returns at
\* least 18 decoded bytes and a cost, depuncture_stream having made 296
\* values of them; for exactly 368 soft bits decode_packet returns at least
\* 26 bytes, depuncture_packet having made 420 values.
C25_DecodeStreamAndPacket ==
    /\ (codec.fn = "decode_stream" /\ Len(codec.input) = 272)
          => /\ Len(codec.arg) = 296
             /\ codec.out # ValueErrorSeq
             /\ Len(codec.out[1]) >= 18
    /\ (codec.fn = "decode_packet" /\ Len(codec.input) = 368)
          => /\ Len(codec.arg) = 420
             /\ codec.out # ValueErrorSeq
             /\ Len(codec.out[1]) >= 26

-----------------------------------------------------------------------------
(* m17/codec/golay.py *)

\* 0x8EB, 0x93E, 0xA97, 0xDC6, 0x367, 0x6CD, 0xD99, 0x3DA, 0x7B4, 0xF68,
\* 0x63B, 0xC75
ENCODE_MATRIX ==
    <<2283, 2366, 2711, 3526, 871, 1741, 3481, 986, 1972, 3944, 1595, 3189>>

\* a decoding matrix that repeats the encoding matrix
DECODE_MATRIX_as_encode == ENCODE_MATRIX

\* 0xC75, 0x49F, 0x93E, 0x6E3, 0xDC6, 0xF13, 0xAB9, 0x1ED, 0x3DA, 0x7B4,
\* 0xF68, 0xA4F
DECODE_MATRIX ==
    <<3189, 1183, 2366, 1763, 3526, 3859, 2745, 493, 986, 1972, 3944, 2639>>

\* the XOR of the rows of matrix selected by the bits of n
RECURSIVE xor_rows(_, _, _)
xor_rows(matrix, n, i) ==
    IF i = 12 THEN 0
    ELSE BitXor(IF (n \div (2 ^ i)) % 2 = 1 THEN matrix[i + 1] ELSE 0,
                xor_rows(matrix, n, i + 1))

_calc_syndrome(data) == xor_rows(ENCODE_MATRIX, data, 0)

golay24_encode(data) == (data * 4096) + _calc_syndrome(data)

RECURSIVE _popcount(_)
_popcount(n) == IF n = 0 THEN 0 ELSE (n % 2) + _popcount(n \div 2)

\* the first element in loop order
first_of(S) == CHOOSE x \in S : \A y \in S : x <= y

\* golay24_decode(codeword): <<data, errors corrected>>, <<0xFFFF, -1>> if
\* uncorrectable
golay24_decode(codeword) ==
    LET data == (codeword \div 4096) % 4096
        parity == codeword % 4096
        syndrome == BitXor(parity, _calc_syndrome(data))
        \* one error in data, up to 2 in parity
        test1(i) == BitXor(syndrome, ENCODE_MATRIX[i + 1])
        hit1 == {i \in 0..11 : _popcount(test1(i)) <= 2}
        \* two errors in data, up to 1 in parity; pair (i, j) as 12 * i + j
        test2(k) == BitXor(syndrome,
                           BitXor(ENCODE_MATRIX[(k \div 12) + 1],
                                  ENCODE_MATRIX[(k % 12) + 1]))
        hit2 == {k \in 0..143 : /\ k \div 12 < k % 12
                                /\ _popcount(test2(k)) <= 1}
        inv_syndrome == xor_rows(DECODE_MATRIX, syndrome, 0)
        \* one error in parity, up to 2 in data
        test3(i) == BitXor(inv_syndrome, DECODE_MATRIX[i + 1])
        hit3 == {i \in 0..11 : _popcount(test3(i)) <= 2}
    IN  IF _popcount(syndrome) <= 3 THEN <<data, _popcount(syndrome)>>
        ELSE IF hit1 # {}
        THEN <<BitXor(data, 2 ^ first_of(hit1)),
               _popcount(test1(first_of(hit1))) + 1>>
        ELSE IF hit2 # {}
        THEN <<BitXor(data, BitXor(2 ^ (first_of(hit2) \div 12),
                                   2 ^ (first_of(hit2) % 12))),
               _popcount(test2(first_of(hit2))) + 2>>
        ELSE IF _popcount(inv_syndrome) <= 3
        THEN <<BitXor(data, inv_syndrome), _popcount(inv_syndrome)>>
        ELSE IF hit3 # {}
        THEN <<BitXor(data, test3(first_of(hit3))),
               _popcount(test3(first_of(hit3))) + 1>>
        ELSE <<65535, -1>>

\* 12-bit data words: the smallest ones, 0x123, 0xABD and 0xFFF
GolayData == (0..MaxGolayData) \cup {291, 2749, 4095}

\* 24-bit error patterns: all of Hamming weight at most 3, and three of
\* weight 4
ErrorPatterns ==
    {(2 ^ a) + (IF b < a THEN 2 ^ b ELSE 0) + (IF c < b THEN 2 ^ c ELSE 0) :
        a \in 0..23, b \in 0..23, c \in 0..23}
        \cup {0, 15, 15728640, 1118480}

\* golay24_encode(d)
golay24_encode_call ==
    /\ codec.fn = "word"
    /\ codec' = Call(codec.input, 1, "golay24_encode", codec.input[1],
                     golay24_encode(codec.input[1]))
    /\ UNCHANGED <<reflVars, lichVars, orphans, stream>>

\* golay24_decode on the codeword with the bits of e flipped
golay24_decode_call ==
    /\ codec.fn = "golay24_encode"
    /\ codec' = Call(codec.input, 2, "golay24_decode",
                     BitXor(codec.out, codec.input[2]),
                     golay24_decode(BitXor(codec.out, codec.input[2])))
    /\ UNCHANGED <<reflVars, lichVars, orphans, stream>>

-----------------------------------------------------------------------------
(* Properties of the Golay code *)

\* C17: for every 12-bit data value d and every 24-bit error pattern e of
\* Hamming weight at most 3, hard-decoding golay24_encode(d) XOR e returns
\* data d, and never the sentinel 0xFFFF with error count -1.
C17_GolayCorrectsThree ==
    (codec.fn = "golay24_decode" /\ _popcount(codec.input[2]) <= 3)
        => /\ codec.out[1] = codec.input[1]
           /\ codec.out[2] # -1
           /\ codec.out # <<65535, -1>>

C17_Witness ==
    /\ codec.fn = "golay24_decode"
    /\ codec.input = <<2749, 1052688>>
    /\ codec.out = <<2749, 3>>

-----------------------------------------------------------------------------
(* m17/core/types.py: the v3 TYPE field *)

\* M17Payload: VERSION_DETECT, DATA_ONLY, VOICE_3200, VOICE_1600_DATA, PACKET
M17PayloadCodes == {0, 1, 2, 3, 15}

\* M17Encryption: NONE .. AES_256, RESERVED
M17EncryptionCodes == 0..7

\* M17Meta: NONE, GNSS_POSITION, EXTENDED_CALLSIGN, TEXT_DATA, AES_IV
M17MetaCodes == {0, 1, 2, 3, 15}

parse_type_field_v3(type_value) ==
    LET payload_raw == (type_value \div 16) % 16
        encryption_raw == (type_value \div 2) % 8
        meta_raw == (type_value \div 4096) % 16
    IN  [payload |-> IF payload_raw \in M17PayloadCodes
                     THEN payload_raw ELSE 0,
         encryption |-> IF encryption_raw \in M17EncryptionCodes
                        THEN encryption_raw ELSE 7,
         signed |-> type_value % 2 = 1,
         meta |-> IF meta_raw \in M17MetaCodes THEN meta_raw ELSE 0,
         can |-> (type_value \div 256) % 16]

build_type_field_v3(tf) ==
    IF tf.can < 0 \/ tf.can > 15 THEN ValueErrorInt
    ELSE IF tf.payload = 15 /\ (tf.encryption # 0 \/ tf.signed)
    THEN ValueErrorInt
    ELSE LET byte0 == ((tf.payload % 16) * 16) + ((tf.encryption % 8) * 2)
                          + (IF tf.signed THEN 1 ELSE 0)
             byte1 == ((tf.meta % 16) * 16) + (tf.can % 16)
         IN  (byte1 * 256) + byte0

\* 16-bit TYPE values: every PAYLOAD, ENCRYPTION, SIGNED and META code, with
\* Channel Access Numbers 0, 7 and 15
TypeValues ==
    {(meta * 4096) + (can * 256) + (payload * 16) + (encryption * 2) + signed :
        meta \in 0..15, can \in {0, 7, 15}, payload \in 0..15,
        encryption \in 0..7, signed \in 0..1}

parse_type_field_v3_call ==
    /\ codec.fn = "type"
    /\ codec' = Call(codec.input, 1, "parse_type_field_v3", codec.input,
                     parse_type_field_v3(codec.input))
    /\ UNCHANGED <<reflVars, lichVars, orphans, stream>>

\* build_type_field_v3(*tf) on the parsed fields
build_type_field_v3_call ==
    /\ codec.fn = "parse_type_field_v3"
    /\ codec' = Call(codec.input, 2, "build_type_field_v3", codec.out,
                     build_type_field_v3(codec.out))
    /\ UNCHANGED <<reflVars, lichVars, orphans, stream>>

\* build_type_field(stream_type, data_type, encryption_type,
\* encryption_subtype, can, reserved): the v2.0.3 layout
build_type_field(f) ==
    IF ~(0 <= f[5] /\ f[5] <= 15) THEN ValueErrorInt
    ELSE IF ~(0 <= f[6] /\ f[6] <= 31) THEN ValueErrorInt
    ELSE (f[1] % 2) + ((f[2] % 4) * 2) + ((f[3] % 4) * 8)
             + ((f[4] % 4) * 32) + ((f[5] % 16) * 128) + ((f[6] % 32) * 2048)

\* detect_type_field_version(type_value): M17Version.V2 = 2, M17Version.V3 = 3
detect_type_field_version(type_value) ==
    LET payload_field == (type_value \div 16) % 16
    IN  IF payload_field # 0 THEN 3 ELSE 2

build_type_field_call ==
    /\ codec.fn = "fields"
    /\ codec' = Call(codec.input, 1, "build_type_field", codec.input,
                     build_type_field(codec.input))
    /\ UNCHANGED <<reflVars, lichVars, orphans, stream>>

\* detect_type_field_version on the value built
detect_type_field_version_call ==
    /\ codec.fn = "build_type_field"
    /\ codec.out # ValueErrorInt
    /\ codec' = Call(codec.input, 2, "detect_type_field_version", codec.out,
                     detect_type_field_version(codec.out))
    /\ UNCHANGED <<reflVars, lichVars, orphans, stream>>

-----------------------------------------------------------------------------
(* Properties of the v3 TYPE field *)

\* the TYPE value carries a PAYLOAD, ENCRYPTION or META code that is not a
\* defined enum value
UndefinedCode(t) ==
    \/ (t \div 16) % 16 \notin M17PayloadCodes
    \/ (t \div 2) % 8 \notin M17EncryptionCodes
    \/ (t \div 4096) % 16 \notin M17MetaCodes

\* C18: parsing a v3 TYPE value with an undefined PAYLOAD, ENCRYPTION or
\* META code does not fail and yields the field's reserved variant
\* (VERSION_DETECT, RESERVED, NONE), and rebuilding the TYPE field from the
\* parsed result gives back the original 16-bit value.
C18_ReservedRoundTrip ==
    /\ (codec.fn = "parse_type_field_v3" /\ UndefinedCode(codec.input))
          => /\ (codec.input \div 16) % 16 \notin M17PayloadCodes
                    => codec.out.payload = 0
             /\ (codec.input \div 2) % 8 \notin M17EncryptionCodes
                    => codec.out.encryption = 7
             /\ (codec.input \div 4096) % 16 \notin M17MetaCodes
                    => codec.out.meta = 0
    /\ (codec.fn = "build_type_field_v3" /\ UndefinedCode(codec.input))
          => codec.out = codec.input

\* C29: every TYPE value built by the v2 builder from valid fields is
\* classified as V2 by detect_type_field_version.
C29_V2BuiltIsV2 ==
    codec.fn = "detect_type_field_version" => codec.out = 2

-----------------------------------------------------------------------------
(* m17/frames/packet.py: PacketChunk and PacketFrame *)

\* PacketChunk(data, is_last, byte_count) after __post_init__
PacketChunk(data, is_last, byte_count) ==
    IF byte_count < 0 \/ byte_count > 25 THEN ValueError
    ELSE [data |-> IF Len(data) < 25 THEN data \o zeros(25 - Len(data))
                   ELSE Slice(data, 0, 25),
          is_last |-> is_last,
          byte_count |-> byte_count]

\* PacketChunk.control_byte: [EOP:1][BC:5][Reserved:2]
control_byte(chunk) ==
    (IF chunk.is_last THEN 128 ELSE 0) + ((chunk.byte_count % 32) * 4)

PacketChunk_to_bytes(chunk) == chunk.data \o <<control_byte(chunk)>>

PacketChunk_from_bytes(data) ==
    IF Len(data) # 26 THEN ValueError
    ELSE PacketChunk(Slice(data, 0, 25), data[26] >= 128,
                     (data[26] \div 4) % 32)

\* PacketFrame.from_data(data).chunks
from_data(data) ==
    IF data = <<>> THEN <<PacketChunk(zeros(25), TRUE, 0)>>
    ELSE [k \in 1..((Len(data) + 24) \div 25) |->
            LET i == 25 * (k - 1)
                chunk_data == Slice(data, i, i + 25)
                is_last == i + 25 >= Len(data)
            IN  PacketChunk(chunk_data, is_last,
                            IF is_last THEN Len(chunk_data) ELSE 25)]

\* PacketFrame.to_bytes_list()
to_bytes_list(frame_chunks) ==
    [k \in 1..Len(frame_chunks) |-> PacketChunk_to_bytes(frame_chunks[k])]

\* packet payloads: bytes 1, 2, 3, ... of every length up to MaxPacketLen
PacketData == {[i \in 1..n |-> i] : n \in 0..MaxPacketLen}

\* received 26-byte chunks, one for every control byte, and a short one
ReceivedChunks ==
    {[i \in 1..25 |-> i] \o <<c>> : c \in 0..255} \cup {[i \in 1..25 |-> i]}

from_data_call ==
    /\ codec.fn = "data"
    /\ codec' = Call(codec.input, 1, "from_data", codec.input,
                     from_data(codec.input))
    /\ UNCHANGED <<reflVars, lichVars, orphans, stream>>

to_bytes_list_call ==
    /\ codec.fn = "from_data"
    /\ codec' = Call(codec.input, 2, "to_bytes_list", codec.out,
                     to_bytes_list(codec.out))
    /\ UNCHANGED <<reflVars, lichVars, orphans, stream>>

\* PacketChunk.from_bytes on a received chunk
PacketChunk_from_bytes_call ==
    /\ codec.fn = "chunk"
    /\ codec' = Call(codec.input, 1, "from_bytes", codec.input,
                     PacketChunk_from_bytes(codec.input))
    /\ UNCHANGED <<reflVars, lichVars, orphans, stream>>

-----------------------------------------------------------------------------
(* m17/crypto/scrambler.py: Scrambler *)

\* Scrambler._seed_to_state(seed) in the given mode (8, 16 or 24)
_seed_to_state(mode, seed) ==
    LET expected == mode \div 8
        padded == IF Len(seed) < expected
                  THEN seed \o zeros(expected - Len(seed))
                  ELSE Slice(seed, 0, expected)
        st == from_bytes(padded)
    IN  IF st = 0 THEN 1 ELSE st

\* Scrambler._lfsr_step(state): <<new_state, output_bit>>, with the taps of
\* LFSR_TAPS[mode]
_lfsr_step(mode, st) ==
    LET taps == IF mode = 8 THEN <<8, 6, 5, 4>>
                ELSE IF mode = 16 THEN <<16, 14, 13, 11>>
                ELSE <<24, 23, 22, 17>>
        bit(t) == (st \div (2 ^ (t - 1))) % 2
        feedback == (bit(taps[1]) + bit(taps[2]) + bit(taps[3])
                         + bit(taps[4])) % 2
    IN  <<(st \div 2) + (feedback * (2 ^ (mode - 1))), st % 2>>

\* _seed_to_state on the chosen mode and seed, as encrypt() begins
_seed_to_state_call ==
    /\ codec.fn = "seed"
    /\ codec' = Call(codec.input, 0, "_seed_to_state", codec.input,
                     _seed_to_state(codec.input[1], codec.input[2]))
    /\ UNCHANGED <<reflVars, lichVars, orphans, stream>>

\* the next _lfsr_step of the keystream, on the state the last one left
_lfsr_step_call ==
    /\ codec.fn \in {"_seed_to_state", "_lfsr_step"}
    /\ codec.steps < MaxLfsrSteps
    /\ LET st == IF codec.fn = "_seed_to_state" THEN codec.out
                 ELSE codec.out[1]
       IN  codec' = Call(codec.input, codec.steps + 1, "_lfsr_step", st,
                         _lfsr_step(codec.input[1], st))
    /\ UNCHANGED <<reflVars, lichVars, orphans, stream>>

\* C22: the LFSR does not lock up: in every mode and for every seed, the
\* all-zero one included, the register is non-zero at the start and after
\* every step.
C22_LfsrNeverZero ==
    /\ codec.fn = "_seed_to_state" => codec.out # 0
    /\ codec.fn = "_lfsr_step" => codec.out[1] # 0

-----------------------------------------------------------------------------
(* The codec functions, each applied to inputs of its own kind *)

InitCodec ==
    /\ Unused
    /\ stream = None
    /\ \/ codec \in {Chosen("str", s) : s \in Callsigns}
       \/ codec \in {Chosen("int", v) : v \in AddressValues}
       \/ codec \in {Chosen("bytes", b) : b \in CrcData}
       \/ codec \in {Chosen("bits", b) : b \in EncodedBits}
       \/ codec \in {Chosen("message", x) : x \in InputBits}
       \/ codec \in {Chosen("soft", [i \in 1..n |->
                                         soft(w)[((i - 1) % Len(w)) + 1]]) :
                        n \in {272, 368, 200},
                        w \in UNION {[1..p -> {0, 1}] : p \in 1..MaxBitPeriod}}
       \/ codec \in {Chosen("word", <<d, e>>) :
                        d \in GolayData, e \in ErrorPatterns}
       \/ codec \in {Chosen("seed", <<8, <<b>>>>) : b \in 0..255}
                      \cup {Chosen("seed", <<16, s>>) :
                              s \in {<<0, 0>>, <<18, 52>>, <<255, 255>>,
                                     <<66>>}}
                      \cup {Chosen("seed", <<24, s>>) :
                              s \in {<<0, 0, 0>>, <<18, 52, 86>>,
                                     <<66, 255, 255, 255>>}}
       \/ codec \in {Chosen("type", t) : t \in TypeValues}
       \/ codec \in {Chosen("fields", <<st, dt, et, es, can, 0>>) :
                        st \in 0..1, dt \in 0..3, et \in 0..3, es \in 0..3,
                        can \in 0..16}
       \/ codec \in {Chosen("data", d) : d \in PacketData}
       \/ codec \in {Chosen("chunk", c) : c \in ReceivedChunks}

NextCodec ==
    \/ encode_callsign_call
    \/ decode_callsign_call
    \/ crc_m17_bytes_call
    \/ /\ codec.fn = "crc_m17_bytes"
       \* the two bytes found after the data: the CRC computed, that CRC
       \* with one bit of either byte flipped, or any pair of CrcBytes
       /\ \E tail \in {codec.out, <<BitXor(codec.out[1], 128), codec.out[2]>>,
                        <<codec.out[1], BitXor(codec.out[2], 1)>>}
                           \cup [1..2 -> CrcBytes] :
              verify_crc_call(tail)
    \/ puncture_lsf_call
    \/ puncture_stream_call
    \/ puncture_packet_call
    \/ puncture_bert_call
    \/ conv_encode_call
    \/ viterbi_decode_call
    \/ decode_stream_call
    \/ decode_packet_call
    \/ golay24_encode_call
    \/ golay24_decode_call
    \/ parse_type_field_v3_call
    \/ build_type_field_v3_call
    \/ _seed_to_state_call
    \/ _lfsr_step_call
    \/ build_type_field_call
    \/ detect_type_field_version_call
    \/ from_data_call
    \/ to_bytes_list_call
    \/ PacketChunk_from_bytes_call

SpecCodec == InitCodec /\ [][NextCodec]_vars

-----------------------------------------------------------------------------
(* Properties of the packet control byte *)

EOP(control) == control >= 128

BC(control) == (control \div 4) % 32

\* C19: in every packet the builder produces EOP is set on the last chunk and
\* on no other, every non-final chunk has BC = 25 and the final chunk has
\* BC in 0..25; and the parser rejects any 26-byte chunk whose control byte
\* has BC > 25 or has EOP = 0 with BC different from 25.
C19_ControlByte ==
    /\ codec.fn = "to_bytes_list"
          => /\ Len(codec.out) >= 1
             /\ \A k \in 1..Len(codec.out) :
                    /\ Len(codec.out[k]) = 26
                    /\ EOP(codec.out[k][26]) <=> k = Len(codec.out)
                    /\ k < Len(codec.out) => BC(codec.out[k][26]) = 25
                    /\ BC(codec.out[k][26]) \in 0..25
    /\ (codec.fn = "from_bytes" /\ Len(codec.arg) = 26
          /\ (\/ BC(codec.arg[26]) > 25
              \/ (~EOP(codec.arg[26]) /\ BC(codec.arg[26]) # 25)))
          => codec.out = ValueError

-----------------------------------------------------------------------------
(* m17/net/client.py: StreamContext *)

(* stream holds the fields of one StreamContext (destination "W2FBI",       *)
(* source "N0CALL", default stream_type and nonce) and what its client has *)
(* been given: frame is the last frame passed to client.send_frame,         *)
(* is_last the flag of the send() that built it, and handed the number of  *)
(* frames passed since the stream was started (construction or             *)
(* __aenter__).                                                             *)

\* __aenter__(): the LinkSetupFrame it builds is the one IPFrame.create
\* builds from the same destination, source, type and nonce
__aenter__ ==
    /\ stream' = [stream EXCEPT
                     !._lsf = StreamFrames[stream._stream_id].lsf,
                     !._frame_number = 0,
                     !.handed = 0]
    /\ UNCHANGED <<reflVars, lichVars, codec, orphans>>

\* send() that advances the counter without masking it to 15 bits
send_unmasked(payload, is_last) ==
    /\ stream.handed < MaxHanded
    /\ LET n == stream._frame_number
           frame_num == IF is_last /\ (n \div 32768) % 2 = 0
                        THEN n + 32768 ELSE n
       IN  stream' = [stream EXCEPT
                         !.frame = [StreamFrames[stream._stream_id] EXCEPT
                                      !.payload = M17Payload(frame_num,
                                                             payload, 0)],
                         !.is_last = is_last,
                         !.handed = @ + 1,
                         !._frame_number = n + 1]
    /\ UNCHANGED <<reflVars, lichVars, codec, orphans>>

send(payload, is_last) ==
    /\ stream.handed < MaxHanded
    /\ LET n == stream._frame_number
           padded == IF Len(payload) < 16
                     THEN payload \o zeros(16 - Len(payload))
                     ELSE Slice(payload, 0, 16)
           \* frame_num |= 0x8000
           frame_num == IF is_last /\ (n \div 32768) % 2 = 0
                        THEN n + 32768 ELSE n
           \* IPFrame.create: the frame differs from the stream's first in
           \* its M17Payload only
       IN  stream' = [stream EXCEPT
                         !.frame = [StreamFrames[stream._stream_id] EXCEPT
                                      !.payload = M17Payload(frame_num,
                                                             padded, 0)],
                         !.is_last = is_last,
                         !.handed = @ + 1,
                         !._frame_number = (n + 1) % 32768]
    /\ UNCHANGED <<reflVars, lichVars, codec, orphans>>

\* __aexit__(): await self.send(bytes(16), is_last=True)
__aexit__ ==
    /\ send(zeros(16), TRUE)
    /\ stream'.is_last

(* One stream context and the calls made on it *)

InitStream ==
    /\ Unused
    /\ codec = NoCall
    /\ stream \in {[_stream_id |-> r, _frame_number |-> 0, _lsf |-> None,
                     handed |-> 0, frame |-> None, is_last |-> FALSE] :
                        r \in RandomStreamIds}

NextStream ==
    \/ __aenter__
    \/ __aexit__
    \/ (\E payload \in {<<>>, zeros(16), zeros(20)} :
            \E is_last \in BOOLEAN : send(payload, is_last))

SpecStream == InitStream /\ [][NextStream]_vars

(* Properties of the stream context *)

EOT(frame) == frame.payload.frame_number >= 32768

\* C21: within one stream context the k-th frame handed to the network
\* (k = 0, 1, 2, ...) carries k mod 2^15 in the low 15 bits of its frame
\* number, and bit 15 is set exactly on a frame sent as last
C21_FrameNumbering ==
    stream.handed > 0
        => /\ stream.frame.payload.frame_number % 32768
                  = (stream.handed - 1) % 32768
           /\ EOT(stream.frame) <=> stream.is_last

\* the frame after the wrap: the 32769th frame of a stream carries 0 again
C21_Witness ==
    /\ stream.handed = 32769
    /\ stream.frame.payload.frame_number = 0
    /\ stream.frame.stream_id = stream._stream_id

\* C30: once a frame has been sent as last, no further frame with the same
\* stream ID is emitted, so a stream context emits exactly one frame with
\* the End-of-Transmission bit set
C30_NothingAfterEOT ==
    [][(stream.frame # None /\ EOT(stream.frame))
          => stream'.handed # stream.handed + 1]_vars

====
